---- MODULE Spec2Model ----
(***************************************************************************)
(* apply_patch.py: the patch applicators, the section locator and the      *)
(* backup / write / commit sequence of main().                             *)
(*                                                                         *)
(* Text is a sequence of one-character strings.  Offsets are 0-based and   *)
(* slices are half-open, as in Python.                                     *)
(***************************************************************************)
EXTENDS Integers, Sequences, FiniteSets, TLC

VARIABLES
    pc,              \* position in main(), or in the locator/applicator harness
    args,            \* the parsed command line
    patch_file,      \* content of the patch file on disk, NoFile if missing
    target_file,     \* content of the target file on disk, NoFile if missing
    backup_file,     \* content of the backup file on disk, NoFile if none
    patch_content,   \* what read_file returned for the patch
    target_content,  \* what read_file returned for the target
    new_content,     \* the applicator's document
    changes_made,    \* the applicator's flag
    stdout,          \* kinds of the messages the applicator printed
    reference,       \* the reference text handed to find_section_smart
    span,            \* what find_section_smart returned
    exit_status      \* Running, then the status the process exited with

vars == <<pc, args, patch_file, target_file, backup_file, patch_content,
          target_content, new_content, changes_made, stdout, reference, span,
          exit_status>>

\* (None, None), and the None of best_match
NoSpan == <<-1, -1>>

----------------------------------------------------------------------------
(* Python str operations                                                   *)

NL == "\n"
TAB == "\t"
CR == "\r"
SP == " "

\* the characters str.strip() and the regex class \s remove / match
Whitespace == {SP, TAB, NL, CR}

\* s[i:j] for 0 <= i, with j clamped to len(s)
Slice(s, i, j) ==
    SubSeq(s, i + 1, IF j < Len(s) THEN j ELSE Len(s))

\* s[i:]
SliceFrom(s, i) == SubSeq(s, i + 1, Len(s))

\* s.startswith(sub, i)
StartsAt(s, sub, i) ==
    /\ i + Len(sub) <= Len(s)
    /\ \A k \in 1..Len(sub) : s[i + k] = sub[k]

SetMax(S) == CHOOSE x \in S : \A y \in S : y <= x
SetMin(S) == CHOOSE x \in S : \A y \in S : x <= y

\* the elements of a finite set of integers in ascending order
SortedSeq(S) ==
    [k \in 1..Cardinality(S) |->
        CHOOSE x \in S : Cardinality({y \in S : y < x}) = k - 1]

\* s.find(sub): offset of the first occurrence, -1 if none
find(s, sub) ==
    LET at == {i \in 0..(Len(s) - Len(sub)) : StartsAt(s, sub, i)} IN
    IF at = {} THEN -1 ELSE SetMin(at)

\* the positions of s that str.strip() keeps lie between the first and the
\* last character that is not whitespace
Inked(s) == {i \in 1..Len(s) : s[i] \notin Whitespace}

lstrip(s) ==
    IF Inked(s) = {} THEN <<>> ELSE SubSeq(s, SetMin(Inked(s)), Len(s))

rstrip(s) ==
    IF Inked(s) = {} THEN <<>> ELSE SubSeq(s, 1, SetMax(Inked(s)))

strip(s) == lstrip(rstrip(s))

\* s.split(sep) for a one-character sep: one piece more than there are sep
split(s, sep) ==
    LET at == SortedSeq({i \in 1..Len(s) : s[i] = sep})
        n == Len(at)
    IN  [j \in 1..(n + 1) |->
            SubSeq(s, IF j = 1 THEN 1 ELSE at[j - 1] + 1,
                      IF j = n + 1 THEN Len(s) ELSE at[j] - 1)]

\* sep.join(parts)
RECURSIVE join(_, _)
join(parts, sep) ==
    IF parts = <<>> THEN <<>>
    ELSE IF Len(parts) = 1 THEN parts[1]
    ELSE parts[1] \o sep \o join(Tail(parts), sep)

\* s.replace(old, new) for a non-empty old: every non-overlapping
\* occurrence, left to right
RECURSIVE replace(_, _, _)
replace(s, old, new) ==
    LET i == find(s, old) IN
    IF i = -1 THEN s
    ELSE Slice(s, 0, i) \o new \o replace(SliceFrom(s, i + Len(old)), old, new)

\* the list.insert(i, x) of Python for 0 <= i <= len
insert(lst, i, x) ==
    SubSeq(lst, 1, i) \o <<x>> \o SubSeq(lst, i + 1, Len(lst))

\* sum(len(lines[j]) + 1 for j in range(n))
RECURSIVE offset_of_line(_, _)
offset_of_line(lines, n) ==
    IF n = 0 THEN 0
    ELSE offset_of_line(lines, n - 1) + Len(lines[n]) + 1

----------------------------------------------------------------------------
(* normalize_whitespace                                                    *)

TabWidth == 4

FourSpaces == [i \in 1..TabWidth |-> SP]

\* text.replace('\t', '    ')
expand_tabs(s) == join(split(s, TAB), FourSpaces)

\* text.replace('\r\n', '\n').replace('\r', '\n') on the pieces between the
\* '\r': a '\r' becomes '\n' unless a '\n' follows it, and then it goes
unify_pieces(pieces) ==
    pieces[1] \o
    join([j \in 1..(Len(pieces) - 1) |->
            IF pieces[j + 1] # <<>> /\ Head(pieces[j + 1]) = NL
            THEN pieces[j + 1] ELSE <<NL>> \o pieces[j + 1]], <<>>)

unify_newlines(s) == unify_pieces(split(s, CR))

strip_each(lines) == [j \in 1..Len(lines) |-> strip(lines[j])]

normalize_whitespace(text) ==
    join(strip_each(split(unify_newlines(expand_tabs(text)), NL)), <<NL>>)

----------------------------------------------------------------------------
(* difflib.SequenceMatcher(None, a, b).ratio(), for sequences shorter than *)
(* the 200 elements at which the autojunk heuristic starts                 *)

\* length of the common run of a from i and b from j (1-based)
RECURSIVE run_length(_, _, _, _)
run_length(a, i, b, j) ==
    IF i > Len(a) \/ j > Len(b) \/ a[i] # b[j] THEN 0
    ELSE 1 + run_length(a, i + 1, b, j + 1)

\* find_longest_match on ks[i][j], the common run from a[i] and b[j]: the
\* longest block; of those the one that starts earliest in a; of those the
\* one that starts earliest in b
block(ks, k, i) ==
    [i |-> i, j |-> SetMin({j \in DOMAIN ks[i] : ks[i][j] = k}), size |-> k]

earliest_block(ks, k) ==
    block(ks, k, SetMin({i \in DOMAIN ks : \E j \in DOMAIN ks[i] : ks[i][j] = k}))

longest_block(ks) ==
    earliest_block(ks, SetMax({ks[i][j] : i \in DOMAIN ks, j \in DOMAIN ks[1]}))

find_longest_match(a, b) ==
    longest_block(
        [i \in 1..Len(a) |-> [j \in 1..Len(b) |-> run_length(a, i, b, j)]])

\* sum of the sizes of get_matching_blocks(): the longest block, then the
\* same to its left and to its right
RECURSIVE matches(_, _)
RECURSIVE matches_around(_, _, _)

matches(a, b) ==
    IF a = <<>> \/ b = <<>> THEN 0
    ELSE matches_around(a, b, find_longest_match(a, b))

matches_around(a, b, m) ==
    IF m.size = 0 THEN 0
    ELSE m.size
         + matches(SubSeq(a, 1, m.i - 1), SubSeq(b, 1, m.j - 1))
         + matches(SubSeq(a, m.i + m.size, Len(a)),
                   SubSeq(b, m.j + m.size, Len(b)))

\* ratio() as the fraction <<numerator, denominator>>: 2.0 * matches / length,
\* and 1.0 when both sequences are empty
ratio(a, b) ==
    IF Len(a) + Len(b) = 0 THEN <<1, 1>>
    ELSE <<2 * matches(a, b), Len(a) + Len(b)>>

\* r > q for fractions with positive denominators
RatioGT(r, q) == r[1] * q[2] > q[1] * r[2]

\* the 0.8 of "ratio > 0.8"
Threshold == <<4, 5>>

----------------------------------------------------------------------------
(* find_section_smart                                                      *)

\* '\n'.join(lines[i:i+n])
window(lines, i, n) == join(SubSeq(lines, i + 1, i + n), <<NL>>)

\* the first loop: the first window equal to the section once both are
\* normalized, -1 if none
RECURSIVE first_normalized_match(_, _, _, _)
first_normalized_match(lines, n, normalized_section, i) ==
    IF i > Len(lines) - n THEN -1
    ELSE IF normalize_whitespace(window(lines, i, n)) = normalized_section
         THEN i
    ELSE first_normalized_match(lines, n, normalized_section, i + 1)

\* better with "ratio >= best_ratio": a later window of the same ratio wins
better_or_equal(r, i, n, best) ==
    IF ~RatioGT(best.ratio, r) /\ RatioGT(r, Threshold)
    THEN [ratio |-> r, match |-> <<i, i + n>>]
    ELSE best

\* "if ratio > best_ratio and ratio > 0.8" for the window i of ratio r
better(r, i, n, best) ==
    IF RatioGT(r, best.ratio) /\ RatioGT(r, Threshold)
    THEN [ratio |-> r, match |-> <<i, i + n>>]
    ELSE best

\* the second loop, from window i on, given best_ratio and best_match so far
RECURSIVE fuzzy_scan(_, _, _, _, _)
fuzzy_scan(lines, n, normalized_section, i, best) ==
    IF i > Len(lines) - n THEN best.match
    ELSE fuzzy_scan(lines, n, normalized_section, i + 1,
            better(ratio(normalize_whitespace(window(lines, i, n)),
                         normalized_section),
                   i, n, best))

\* "if best_match:" and the offsets of its lines
fuzzy_span(lines, best_match) ==
    IF best_match # NoSpan
    THEN <<offset_of_line(lines, best_match[1]),
           offset_of_line(lines, best_match[2])>>
    ELSE NoSpan

\* the offsets of the window i the first loop found, else the second loop
window_span(lines, n, normalized_section, i) ==
    IF i # -1
    THEN <<offset_of_line(lines, i),
           offset_of_line(lines, i) + Len(window(lines, i, n))>>
    ELSE fuzzy_span(lines,
                    fuzzy_scan(lines, n, normalized_section, 0,
                               [ratio |-> <<0, 1>>, match |-> NoSpan]))

\* "Whitespace-insensitive matching" on lines = content.split('\n') and
\* n = len(section.split('\n'))
whitespace_span(lines, n, normalized_section) ==
    IF n > Len(lines) THEN NoSpan
    ELSE window_span(lines, n, normalized_section,
                     first_normalized_match(lines, n, normalized_section, 0))

\* "Regular exact matching" given start = content.find(section)
exact_span(start, length) ==
    IF start # -1 THEN <<start, start + length>> ELSE NoSpan

\* returns <<start, end>>, and NoSpan for (None, None)
find_section_smart(content, section, ignore_whitespace) ==
    IF ~ignore_whitespace
    THEN exact_span(find(content, section), Len(section))
    ELSE whitespace_span(split(content, NL), Len(split(section, NL)),
                         normalize_whitespace(section))

----------------------------------------------------------------------------
(* The part of Python's re that the patterns of this program use: a        *)
(* backtracking matcher over a sequence of pattern items.                  *)

Digits == {"0", "1", "2", "3", "4", "5", "6", "7", "8", "9"}

\* [a-zA-Z_$]
IdentStart ==
    {
          "a", "b", "c", "d", "e", "f", "g", "h", "i", "j", "k", "l", "m",
          "n", "o", "p", "q", "r", "s", "t", "u", "v", "w", "x", "y", "z" }
    \cup
    {
          "A", "B", "C", "D", "E", "F", "G", "H", "I", "J", "K", "L", "M",
          "N", "O", "P", "Q", "R", "S", "T", "U", "V", "W", "X", "Y", "Z" }
    \cup {"_", "$"}

InClass(c, cls) ==
    CASE cls = "space"      -> c \in Whitespace                \* \s
      [] cls = "digit"      -> c \in Digits                    \* \d
      [] cls = "identstart" -> c \in IdentStart                \* [a-zA-Z_$]
      [] cls = "identrest"  -> c \in IdentStart \cup Digits    \* [a-zA-Z0-9_$]
      [] cls = "notrparen"  -> c # ")"                         \* [^)]
      [] cls = "any"        -> TRUE                            \* . under DOTALL

Lit(s) == [kind |-> "lit", s |-> s]
Star(cls) == [kind |-> "rep", cls |-> cls, min |-> 0]      \* greedy X*
Plus(cls) == [kind |-> "rep", cls |-> cls, min |-> 1]      \* greedy X+
One(cls) == [kind |-> "one", cls |-> cls]
Lazy == [kind |-> "lazy"]                                  \* .*?
Open(g) == [kind |-> "open", g |-> g]                      \* (
Close(g) == [kind |-> "close", g |-> g]                    \* )

NoMatch == [ok |-> FALSE]
NoGroups == [g \in 1..2 |-> <<-1, -1>>]

\* how many characters of class cls follow offset pos
class_run(text, pos, cls) ==
    SetMin({n \in 0..(Len(text) - pos) :
               n = Len(text) - pos \/ ~InClass(text[pos + n + 1], cls)})

\* match items k.. of pat at offset pos: the first success in the order in
\* which a backtracking matcher tries the alternatives (a greedy repetition
\* from its longest run down, a lazy one from the empty run up)
RECURSIVE re_match(_, _, _, _, _)
re_match(pat, k, text, pos, groups) ==
    IF k > Len(pat) THEN [ok |-> TRUE, end |-> pos, groups |-> groups]
    ELSE LET it == pat[k] IN
    CASE it.kind = "lit" ->
            IF StartsAt(text, it.s, pos)
            THEN re_match(pat, k + 1, text, pos + Len(it.s), groups)
            ELSE NoMatch
      [] it.kind = "one" ->
            IF pos < Len(text) /\ InClass(text[pos + 1], it.cls)
            THEN re_match(pat, k + 1, text, pos + 1, groups)
            ELSE NoMatch
      [] it.kind = "open" ->
            re_match(pat, k + 1, text, pos,
                     [groups EXCEPT ![it.g] = <<pos, -1>>])
      [] it.kind = "close" ->
            re_match(pat, k + 1, text, pos,
                     [groups EXCEPT ![it.g] = <<groups[it.g][1], pos>>])
      [] it.kind = "rep" ->
            LET good == {n \in it.min..class_run(text, pos, it.cls) :
                            re_match(pat, k + 1, text, pos + n, groups).ok}
            IN  IF good = {} THEN NoMatch
                ELSE re_match(pat, k + 1, text, pos + SetMax(good), groups)
      [] it.kind = "lazy" ->
            LET good == {p \in pos..Len(text) :
                            re_match(pat, k + 1, text, p, groups).ok}
            IN  IF good = {} THEN NoMatch
                ELSE re_match(pat, k + 1, text, SetMin(good), groups)

\* the match object of a successful re_match r at offset p
match_at(p, r) == [ok |-> TRUE, start |-> p, end |-> r.end, groups |-> r.groups]

leftmost(pat, text, starts) ==
    IF starts = {} THEN NoMatch
    ELSE match_at(SetMin(starts), re_match(pat, 1, text, SetMin(starts), NoGroups))

\* re.search from offset pos: the leftmost match, NoMatch if there is none
search(pat, text, pos) ==
    leftmost(pat, text,
             {p \in pos..Len(text) : re_match(pat, 1, text, p, NoGroups).ok})

\* re.finditer: the non-overlapping matches, left to right
RECURSIVE finditer(_, _, _)
RECURSIVE finditer_after(_, _, _)

finditer(pat, text, pos) == finditer_after(pat, text, search(pat, text, pos))

finditer_after(pat, text, m) ==
    IF ~m.ok THEN <<>>
    ELSE <<m>> \o finditer(pat, text,
                           IF m.end = m.start THEN m.end + 1 ELSE m.end)

\* match.group(g); group(0) is the whole match
group(text, m, g) ==
    IF g = 0 THEN Slice(text, m.start, m.end)
    ELSE Slice(text, m.groups[g][1], m.groups[g][2])

\* int() of a string of decimal digits
DigitValue(c) ==
    CASE c = "0" -> 0 [] c = "1" -> 1 [] c = "2" -> 2 [] c = "3" -> 3
      [] c = "4" -> 4 [] c = "5" -> 5 [] c = "6" -> 6 [] c = "7" -> 7
      [] c = "8" -> 8 [] c = "9" -> 9

RECURSIVE int(_)
int(s) ==
    IF s = <<>> THEN 0
    ELSE 10 * int(SubSeq(s, 1, Len(s) - 1)) + DigitValue(s[Len(s)])

----------------------------------------------------------------------------
(* The marker and keyword literals of the patterns                         *)

REPLACE_SECTION ==
    <<"/", "/", " ", "R", "E", "P", "L", "A", "C", "E", "_", "S",
      "E", "C", "T", "I", "O", "N">>

WITH_MARKER ==
    <<"/", "/", " ", "W", "I", "T", "H">>

END_REPLACE ==
    <<"/", "/", " ", "E", "N", "D", "_", "R", "E", "P", "L", "A",
      "C", "E">>

ADD_AFTER ==
    <<"/", "/", " ", "A", "D", "D", "_", "A", "F", "T", "E", "R">>

ADD_BEFORE ==
    <<"/", "/", " ", "A", "D", "D", "_", "B", "E", "F", "O", "R",
      "E">>

NEW_CONTENT ==
    <<"/", "/", " ", "N", "E", "W", "_", "C", "O", "N", "T", "E",
      "N", "T">>

END_ADD ==
    <<"/", "/", " ", "E", "N", "D", "_", "A", "D", "D">>

INSERT_AT_LINE ==
    <<"/", "/", " ", "I", "N", "S", "E", "R", "T", "_", "A", "T",
      "_", "L", "I", "N", "E", " ">>

END_INSERT ==
    <<"/", "/", " ", "E", "N", "D", "_", "I", "N", "S", "E", "R",
      "T">>

FUNCTION ==
    <<"f", "u", "n", "c", "t", "i", "o", "n">>

\* r"// REPLACE_SECTION\s*\n(.*?)\n// WITH\s*\n(.*?)\n// END_REPLACE"
replace_pattern ==
    <<Lit(REPLACE_SECTION), Star("space"), Lit(<<NL>>), Open(1), Lazy, Close(1),
      Lit(<<NL>> \o WITH_MARKER), Star("space"), Lit(<<NL>>), Open(2), Lazy, Close(2),
      Lit(<<NL>> \o END_REPLACE)>>

\* r"// ADD_AFTER\s*\n(.*?)\n// NEW_CONTENT\s*\n(.*?)\n// END_ADD"
after_pattern ==
    <<Lit(ADD_AFTER), Star("space"), Lit(<<NL>>), Open(1), Lazy, Close(1),
      Lit(<<NL>> \o NEW_CONTENT), Star("space"), Lit(<<NL>>), Open(2), Lazy,
      Close(2), Lit(<<NL>> \o END_ADD)>>

\* r"// ADD_BEFORE\s*\n(.*?)\n// NEW_CONTENT\s*\n(.*?)\n// END_ADD"
before_pattern ==
    <<Lit(ADD_BEFORE), Star("space"), Lit(<<NL>>), Open(1), Lazy, Close(1),
      Lit(<<NL>> \o NEW_CONTENT), Star("space"), Lit(<<NL>>), Open(2), Lazy,
      Close(2), Lit(<<NL>> \o END_ADD)>>

\* r"// INSERT_AT_LINE (\d+)\s*\n(.*?)\n// END_INSERT"
insert_pattern ==
    <<Lit(INSERT_AT_LINE), Open(1), Plus("digit"), Close(1), Star("space"),
      Lit(<<NL>>), Open(2), Lazy, Close(2), Lit(<<NL>> \o END_INSERT)>>

\* r"function\s+([a-zA-Z_$][a-zA-Z0-9_$]*)\s*\([^)]*\)\s*{(.*?)}"
function_pattern ==
    <<Lit(FUNCTION), Plus("space"), Open(1), One("identstart"),
      Star("identrest"), Close(1), Star("space"), Lit(<<"(">>),
      Star("notrparen"), Lit(<<")">>), Star("space"), Lit(<<"{">>), Open(2),
      Lazy, Close(2), Lit(<<"}">>)>>

\* r"function\s+" + re.escape(func_name) + r"\s*\([^)]*\)\s*{.*?}"
func_pattern(func_name) ==
    <<Lit(FUNCTION), Plus("space"), Lit(func_name), Star("space"),
      Lit(<<"(">>), Star("notrparen"), Lit(<<")">>), Star("space"),
      Lit(<<"{">>), Lazy, Lit(<<"}">>)>>

----------------------------------------------------------------------------
(* The applicators                                                         *)

\* apply_patch_replace returning the patch without the whitespace at its ends
apply_patch_replace_stripped(target, patch) == strip(patch)

apply_patch_replace(target, patch) == patch

apply_patch_append(target, patch) == rstrip(target) \o <<NL, NL>> \o patch

apply_patch_prepend(target, patch) == patch \o <<NL, NL>> \o lstrip(target)

\* [result, changes_made, stdout] after a directive applied / was skipped
applied(st, doc, msg) ==
    [result |-> doc, changes_made |-> TRUE, stdout |-> Append(st.stdout, msg)]

skipped(st, msg) == [st EXCEPT !.stdout = Append(st.stdout, msg)]

\* splice whose ADD_AFTER branch adds the text without setting changes_made
splice_after_unflagged(kind, st, text, found) ==
    IF found = NoSpan
    THEN skipped(st, CASE kind = "replace" ->
                            "WARNING: Could not find section to replace"
                       [] kind = "after" ->
                            "WARNING: Could not find target to add after"
                       [] kind = "before" ->
                            "WARNING: Could not find target to add before")
    ELSE CASE kind = "replace" ->
                applied(st, Slice(st.result, 0, found[1]) \o text
                            \o SliceFrom(st.result, found[2]),
                        "Replaced section")
           [] kind = "after" ->
                [result |-> Slice(st.result, 0, found[2]) \o <<NL>> \o text
                            \o SliceFrom(st.result, found[2]),
                 changes_made |-> st.changes_made,
                 stdout |-> Append(st.stdout, "Added content after")]
           [] kind = "before" ->
                applied(st, Slice(st.result, 0, found[1]) \o text \o <<NL>>
                            \o SliceFrom(st.result, found[1]),
                        "Added content before")

\* the body of the REPLACE_SECTION, ADD_AFTER and ADD_BEFORE loops once
\* find_section_smart returned found
splice(kind, st, text, found) ==
    IF found = NoSpan
    THEN skipped(st, CASE kind = "replace" ->
                            "WARNING: Could not find section to replace"
                       [] kind = "after" ->
                            "WARNING: Could not find target to add after"
                       [] kind = "before" ->
                            "WARNING: Could not find target to add before")
    ELSE CASE kind = "replace" ->
                applied(st, Slice(st.result, 0, found[1]) \o text
                            \o SliceFrom(st.result, found[2]),
                        "Replaced section")
           [] kind = "after" ->
                applied(st, Slice(st.result, 0, found[2]) \o <<NL>> \o text
                            \o SliceFrom(st.result, found[2]),
                        "Added content after")
           [] kind = "before" ->
                applied(st, Slice(st.result, 0, found[1]) \o text \o <<NL>>
                            \o SliceFrom(st.result, found[1]),
                        "Added content before")

\* the body of the INSERT_AT_LINE loop on lines = result.split("\n")
insert_at_line(st, line_number, new_text, lines) ==
    IF 1 <= line_number /\ line_number <= Len(lines) + 1
    THEN applied(st, join(insert(lines, line_number - 1, new_text), <<NL>>),
                 "Inserted at line")
    ELSE skipped(st, "WARNING: Line number is out of range")

\* what one iteration of a loop of apply_patch_smart does to
\* st = [result, changes_made, stdout] for the match m of its pattern
smart_step(kind, st, patch, m, ignore_whitespace) ==
    IF kind = "insert"
    THEN insert_at_line(st, int(group(patch, m, 1)),
                        strip(group(patch, m, 2)), split(st.result, NL))
    ELSE splice(kind, st, strip(group(patch, m, 2)),
                find_section_smart(st.result, strip(group(patch, m, 1)),
                                   ignore_whitespace))

\* one "for match in ..." loop of apply_patch_smart
RECURSIVE smart_loop(_, _, _, _, _)
smart_loop(kind, st, patch, ms, ignore_whitespace) ==
    IF ms = <<>> THEN st
    ELSE smart_loop(kind,
                    smart_step(kind, st, patch, Head(ms), ignore_whitespace),
                    patch, Tail(ms), ignore_whitespace)

\* the four loops of apply_patch_smart in their order
SmartKinds == <<"replace", "after", "before", "insert">>

pattern_of(kind) ==
    CASE kind = "replace" -> replace_pattern
      [] kind = "after" -> after_pattern
      [] kind = "before" -> before_pattern
      [] kind = "insert" -> insert_pattern

RECURSIVE smart_loops(_, _, _, _)
smart_loops(k, st, patch, ignore_whitespace) ==
    IF k > Len(SmartKinds) THEN st
    ELSE smart_loops(k + 1,
            smart_loop(SmartKinds[k], st, patch,
                       finditer(pattern_of(SmartKinds[k]), patch, 0),
                       ignore_whitespace),
            patch, ignore_whitespace)

apply_patch_smart(target, patch, ignore_whitespace) ==
    smart_loops(1, [result |-> target, changes_made |-> FALSE, stdout |-> <<>>],
                patch, ignore_whitespace)

\* functions[func_name] = func_body on a dict kept as a sequence of
\* <<name, body>> in the order the names were first inserted
dict_set(functions, func_name, func_body) ==
    IF \E k \in 1..Len(functions) : functions[k][1] = func_name
    THEN [k \in 1..Len(functions) |->
            IF functions[k][1] = func_name THEN <<func_name, func_body>>
            ELSE functions[k]]
    ELSE Append(functions, <<func_name, func_body>>)

RECURSIVE collect_functions(_, _, _)
collect_functions(patch, ms, functions) ==
    IF ms = <<>> THEN functions
    ELSE collect_functions(patch, Tail(ms),
            dict_set(functions, group(patch, Head(ms), 1),
                     group(patch, Head(ms), 0)))

parse_function_blocks(patch) ==
    collect_functions(patch, finditer(function_pattern, patch, 0), <<>>)

\* the body of the loop of apply_function_updates once re.search on
\* target_content returned func_match
function_step(st, target, func_body, func_match) ==
    IF func_match.ok
    THEN [result |-> replace(st.result, group(target, func_match, 0), func_body),
          changes_made |-> TRUE,
          stdout |-> Append(st.stdout, "Updated function")]
    ELSE [result |-> st.result \o <<NL, NL>> \o func_body,
          changes_made |-> TRUE,
          stdout |-> Append(st.stdout, "Added new function")]

\* the loop of apply_function_updates from entry k on
RECURSIVE function_loop(_, _, _, _)
function_loop(target, patch_functions, k, st) ==
    IF k > Len(patch_functions) THEN st
    ELSE function_loop(target, patch_functions, k + 1,
            function_step(st, target, patch_functions[k][2],
                          search(func_pattern(patch_functions[k][1]), target, 0)))

apply_function_updates(target, patch_functions) ==
    function_loop(target, patch_functions, 1,
                  [result |-> target, changes_made |-> FALSE, stdout |-> <<>>])

----------------------------------------------------------------------------
(* main()                                                                  *)

Modes == {"replace", "append", "prepend", "smart", "functions"}

File(content) == [exists |-> TRUE, content |-> content]
Missing == [exists |-> FALSE, content |-> <<>>]

\* exit_status while the process runs
Running == -1

print(msg) == stdout' = Append(stdout, msg)

\* sys.exit(status)
sys_exit(status) == pc' = "exit" /\ exit_status' = status

\* "Check if files exist"
CheckFiles ==
    /\ pc = "check_files"
    /\ IF ~patch_file.exists
       THEN print("Error: Patch file not found") /\ sys_exit(1)
       ELSE IF ~target_file.exists
       THEN print("Error: Target file not found") /\ sys_exit(1)
       ELSE pc' = "check_git" /\ UNCHANGED <<stdout, exit_status>>
    /\ UNCHANGED <<args, patch_file, target_file, backup_file, patch_content,
                   target_content, new_content, changes_made, reference, span>>

\* "Check Git setup if needed": what check_git_installed, is_git_repository
\* and initialize_git_repository answer is the environment's choice
CheckGit ==
    /\ pc = "check_git"
    /\ \E installed, repository, init_ok \in BOOLEAN :
         IF ~(args.git_commit \/ args.git_init)
         THEN pc' = "read_files" /\ UNCHANGED <<args, stdout, exit_status>>
         ELSE IF ~installed
         THEN /\ print("Error: Git is not installed")
              /\ sys_exit(1)
              /\ UNCHANGED args
         ELSE LET init_failed == args.git_init /\ ~repository /\ ~init_ok
                  git_commit == args.git_commit /\ ~init_failed
                  now_repository ==
                      repository \/ (args.git_init /\ ~repository /\ init_ok)
              IN  /\ args' = [args EXCEPT !.git_commit = git_commit]
                  /\ IF git_commit /\ ~now_repository
                     THEN print("Error: Not in a Git repository") /\ sys_exit(1)
                     ELSE /\ pc' = "read_files"
                          /\ IF init_failed
                             THEN print("Warning: Could not initialize Git repository")
                             ELSE UNCHANGED stdout
                          /\ UNCHANGED exit_status
    /\ UNCHANGED <<patch_file, target_file, backup_file, patch_content,
                   target_content, new_content, changes_made, reference, span>>

\* "Read the files": read_file exits with 1 when the read raises
ReadFiles ==
    /\ pc = "read_files"
    /\ \E readable \in BOOLEAN :
         IF readable
         THEN /\ patch_content' = patch_file.content
              /\ target_content' = target_file.content
              /\ pc' = "create_backup"
              /\ UNCHANGED <<stdout, exit_status>>
         ELSE /\ print("Error reading file")
              /\ sys_exit(1)
              /\ UNCHANGED <<patch_content, target_content>>
    /\ UNCHANGED <<args, patch_file, target_file, backup_file, new_content,
                   changes_made, reference, span>>

\* "Create backup if requested": create_backup copies the target file
CreateBackup ==
    /\ pc = "create_backup"
    /\ IF args.backup \/ args.safe_mode
       THEN /\ backup_file' = File(target_file.content)
            /\ print("Created backup")
       ELSE UNCHANGED <<backup_file, stdout>>
    /\ pc' = "apply"
    /\ UNCHANGED <<args, patch_file, target_file, patch_content,
                   target_content, new_content, changes_made, reference, span,
                   exit_status>>

\* the applicator returned r = [result, changes_made, stdout]: the end of
\* the if/elif chain
Applied(r) ==
    /\ new_content' = r.result
    /\ changes_made' = r.changes_made
    /\ stdout' = stdout \o r.stdout
    /\ pc' = "check_changes"
    /\ UNCHANGED <<args, patch_file, target_file, backup_file, patch_content,
                   target_content, reference, span, exit_status>>

\* new_content and changes_made of the modes whose applicator returns text
Returned(content, changed) ==
    [result |-> content, changes_made |-> changed, stdout |-> <<>>]

\* changes_made = new_content != target_content
Differs(content, target) == Returned(content, content # target)

ApplyReplace ==
    /\ pc = "apply" /\ args.mode = "replace"
    /\ Applied(Differs(apply_patch_replace(target_content, patch_content),
                       target_content))

ApplyAppend ==
    /\ pc = "apply" /\ args.mode = "append"
    /\ Applied(Returned(apply_patch_append(target_content, patch_content), TRUE))

ApplyPrepend ==
    /\ pc = "apply" /\ args.mode = "prepend"
    /\ Applied(Returned(apply_patch_prepend(target_content, patch_content), TRUE))

ApplySmart ==
    /\ pc = "apply" /\ args.mode = "smart"
    /\ Applied(apply_patch_smart(target_content, patch_content,
                                 args.ignore_whitespace))

ApplyFunctions ==
    /\ pc = "apply" /\ args.mode = "functions"
    /\ Applied(apply_function_updates(target_content,
                                      parse_function_blocks(patch_content)))

\* an applicator that prints raises when stdout refuses the text
\* (UnicodeEncodeError, BrokenPipeError): control passes to "except Exception"
ApplyRaises ==
    /\ pc = "apply" /\ args.mode \in {"smart", "functions"}
    /\ pc' = "except"
    /\ UNCHANGED <<args, patch_file, target_file, backup_file, patch_content,
                   target_content, new_content, changes_made, stdout, reference,
                   span, exit_status>>

\* CheckChanges that reports the no-op as a failure
CheckChangesFailing ==
    /\ pc = "check_changes"
    /\ IF ~changes_made
       THEN print("No changes were made") /\ sys_exit(1)
       ELSE pc' = "write_file" /\ UNCHANGED <<stdout, exit_status>>
    /\ UNCHANGED <<args, patch_file, target_file, backup_file, patch_content,
                   target_content, new_content, changes_made, reference, span>>

\* "Check if there are actual changes"
CheckChanges ==
    /\ pc = "check_changes"
    /\ IF ~changes_made
       THEN print("No changes were made") /\ sys_exit(0)
       ELSE pc' = "write_file" /\ UNCHANGED <<stdout, exit_status>>
    /\ UNCHANGED <<args, patch_file, target_file, backup_file, patch_content,
                   target_content, new_content, changes_made, reference, span>>

\* what the target file can hold after write_file raised: open(.., 'w')
\* raised and the file is as it was, or the file was truncated and holds
\* nothing, or all of the content but its last character
FailedWrites(old, content) ==
    {old, <<>>} \cup
    (IF content = <<>> THEN {} ELSE {SubSeq(content, 1, Len(content) - 1)})

\* write_file: on an exception it prints and exits with 1
WriteFile ==
    /\ pc = "write_file"
    /\ \/ /\ target_file' = File(new_content)
          /\ print("Successfully updated")
          /\ pc' = "git_commit"
          /\ UNCHANGED exit_status
       \/ /\ \E left \in FailedWrites(target_file.content, new_content) :
                target_file' = File(left)
          /\ print("Error writing to file")
          /\ sys_exit(1)
    /\ UNCHANGED <<args, patch_file, backup_file, patch_content,
                   target_content, new_content, changes_made, reference, span>>

\* "Commit changes to Git if requested": git_commit_changes returns True,
\* or False on a SubprocessError, or lets any other exception through
\* (an OSError of subprocess.run)
GitCommit ==
    /\ pc = "git_commit"
    /\ IF ~args.git_commit
       THEN print("Patch applied successfully") /\ sys_exit(0)
       ELSE \/ print("Changes committed to Git") /\ sys_exit(0)
            \/ /\ print("Warning: Changes were applied but could not be committed")
               /\ sys_exit(0)
            \/ pc' = "except" /\ UNCHANGED <<stdout, exit_status>>
    /\ UNCHANGED <<args, patch_file, target_file, backup_file, patch_content,
                   target_content, new_content, changes_made, reference, span>>

\* ExceptHandler that removes the backup once it has restored from it
ExceptHandlerRemoving ==
    /\ pc = "except"
    /\ IF args.safe_mode /\ backup_file.exists
       THEN /\ target_file' = File(backup_file.content)
            /\ backup_file' = Missing
            /\ stdout' = stdout \o <<"Error applying patch",
                                      "Original file restored">>
       ELSE /\ print("Error applying patch")
            /\ UNCHANGED <<target_file, backup_file>>
    /\ sys_exit(1)
    /\ UNCHANGED <<args, patch_file, patch_content, target_content,
                   new_content, changes_made, reference, span>>

\* "except Exception": restore under safe mode, exit with 1
ExceptHandler ==
    /\ pc = "except"
    /\ IF args.safe_mode /\ backup_file.exists
       THEN /\ target_file' = File(backup_file.content)
            /\ stdout' = stdout \o <<"Error applying patch",
                                      "Original file restored">>
       ELSE /\ print("Error applying patch")
            /\ UNCHANGED target_file
    /\ sys_exit(1)
    /\ UNCHANGED <<args, patch_file, backup_file, patch_content,
                   target_content, new_content, changes_made, reference, span>>

----------------------------------------------------------------------------
(* The locator on its own: find_section_smart applied to a document and a  *)
(* reference text                                                          *)

Locate ==
    /\ pc = "locate"
    /\ span' = find_section_smart(target_content, reference,
                                  args.ignore_whitespace)
    /\ pc' = "located"
    /\ UNCHANGED <<args, patch_file, target_file, backup_file, patch_content,
                   target_content, new_content, changes_made, stdout, reference,
                   exit_status>>

----------------------------------------------------------------------------
(* Inputs                                                                  *)

\* the texts made of 0..maxn pieces joined by sep
Joined(pieces, maxn, sep) ==
    {join(t, sep) : t \in UNION {[1..n -> pieces] : n \in 0..maxn}}

\* the texts made of 1..maxn pieces joined by sep
Joined1(pieces, maxn, sep) ==
    {join(t, sep) : t \in UNION {[1..n -> pieces] : n \in 1..maxn}}

Arguments(mode, backup, safe_mode, ignore_whitespace, git_commit, git_init) ==
    [mode |-> mode, backup |-> backup, safe_mode |-> safe_mode,
     ignore_whitespace |-> ignore_whitespace, git_commit |-> git_commit,
     git_init |-> git_init]

\* the lines of the locator's documents and of its reference texts
DocLines == {<<"a", "b", "c">>, <<SP, "a", TAB, "b">>, <<"a", "b", CR>>}
ReferenceLines == {<<"a", "b", "c", "d">>, <<"a", "b">>,
                   <<"a", SP, SP, SP, SP, "b">>}

MaxDocLines == 3
MaxReferenceLines == 2

LocatorDocuments == Joined1(DocLines, MaxDocLines, <<NL>>)
LocatorReferences == Joined1(ReferenceLines, MaxReferenceLines, <<NL>>)

\* directive blocks of a smart patch: marker lines around one-line texts
Block2(first, anchor, second, text, last) ==
    first \o <<NL>> \o anchor \o <<NL>> \o second \o <<NL>> \o text
    \o <<NL>> \o last

\* replace "a" by "c"; add "d" after "b"; add "e" before "c";
\* insert "f" at line 3
ReplaceBlock == Block2(REPLACE_SECTION, <<"a">>, WITH_MARKER, <<"c">>, END_REPLACE)
AfterBlock == Block2(ADD_AFTER, <<"b">>, NEW_CONTENT, <<"d">>, END_ADD)
BeforeBlock == Block2(ADD_BEFORE, <<"c">>, NEW_CONTENT, <<"e">>, END_ADD)
InsertBlock ==
    INSERT_AT_LINE \o <<"3", NL, "f", NL>> \o END_INSERT
\* an ADD_AFTER start marker and anchor without NEW_CONTENT and END_ADD
UnfinishedBlock == ADD_AFTER \o <<NL, "a">>

SmartBlocks == {ReplaceBlock, AfterBlock, BeforeBlock, InsertBlock}

MaxDirectives == 2

\* the patches of 0..MaxDirectives directives, and two with a start marker
\* that nothing ends
SmartPatches ==
    Joined(SmartBlocks, MaxDirectives, <<NL>>)
    \cup {UnfinishedBlock, UnfinishedBlock \o <<NL>> \o ReplaceBlock}
SmartTargets == {<<"a", NL, "b">>, <<SP, "a", NL, "b", NL>>, <<"b">>, <<"x">>}

\* function definitions, one of them with a nested function
FunctionF == FUNCTION \o <<SP, "f", "(", ")", "{", "1", "}">>
FunctionG == FUNCTION \o <<SP, "g", "(", ")", "{", "2", "}">>
FunctionNested ==
    FUNCTION \o <<SP, "f", "(", ")", "{">> \o FUNCTION
    \o <<SP, "g", "(", ")", "{", "3", "}", "}">>

FunctionPieces == {FunctionF, FunctionG, FunctionNested}

MaxFunctions == 2

FunctionTexts == Joined(FunctionPieces, MaxFunctions, <<NL>>)
\* the targets of a function update: no function, one, one twice, a nested
\* one
FunctionTargets ==
    {<<>>, FunctionF, FunctionG, FunctionNested,
     FunctionF \o <<NL>> \o FunctionF}

\* plain texts, with and without whitespace at their ends
PlainTexts ==
    {<<"a", NL, "b">>, <<"a", NL, "b", NL>>, <<"a", SP, NL, NL>>,
     <<NL, SP, "a">>, <<"c">>, <<>>}

\* document "foo\nbar\nbaz\n" and a patch that names old "bar", new "qux"
ExampleTarget ==
    <<"f", "o", "o", NL, "b", "a", "r", NL, "b", "a", "z", NL>>
ExamplePatch ==
    Block2(REPLACE_SECTION, <<"b", "a", "r">>, WITH_MARKER, <<"q", "u", "x">>,
           END_REPLACE)

\* the patch and the target of one run of an applicator
ApplicatorInputs(mode) ==
    CASE mode = "smart" -> SmartPatches \X SmartTargets
      [] mode = "functions" -> FunctionTexts \X FunctionTargets
      [] mode = "replace" ->
            (PlainTexts \X PlainTexts) \cup {<<ExamplePatch, ExampleTarget>>}
      [] OTHER -> PlainTexts \X PlainTexts

\* the patch files and target files of main()
MainPatches ==
    {<<"a", NL, "b">>, ReplaceBlock, UnfinishedBlock \o <<NL>> \o ReplaceBlock,
     FunctionNested}
MainTargets == {<<"a", NL, "b">>, FunctionF}

----------------------------------------------------------------------------
(* Specifications                                                          *)

\* what every run starts with besides its inputs
Fresh ==
    /\ backup_file = Missing
    /\ new_content = <<>>
    /\ changes_made = FALSE
    /\ stdout = <<>>
    /\ span = NoSpan
    /\ exit_status = Running

\* main() from its first statement
Init ==
    /\ pc = "check_files"
    /\ args \in {Arguments(m, b, sm, iw, gc, gi) :
                    m \in Modes, b \in BOOLEAN, sm \in BOOLEAN,
                    iw \in BOOLEAN, gc \in BOOLEAN, gi \in BOOLEAN}
    /\ patch_file \in {Missing} \cup {File(p) : p \in MainPatches}
    /\ target_file \in {Missing} \cup {File(t) : t \in MainTargets}
    /\ patch_content = <<>>
    /\ target_content = <<>>
    /\ reference = <<>>
    /\ Fresh

Next ==
    \/ CheckFiles
    \/ CheckGit
    \/ ReadFiles
    \/ CreateBackup
    \/ ApplyReplace
    \/ ApplyAppend
    \/ ApplyPrepend
    \/ ApplySmart
    \/ ApplyFunctions
    \/ ApplyRaises
    \/ CheckChanges
    \/ WriteFile
    \/ GitCommit
    \/ ExceptHandler

Spec == Init /\ [][Next]_vars

\* the applicators on their own: main() at its try block, files read, no
\* backup, no Git
InitApply ==
    /\ pc = "apply"
    /\ \E m \in Modes, iw \in BOOLEAN :
         /\ args = Arguments(m, FALSE, FALSE, iw, FALSE, FALSE)
         /\ (m # "smart" => ~iw)
         /\ \E input \in ApplicatorInputs(m) :
              patch_content = input[1] /\ target_content = input[2]
    /\ patch_file = File(patch_content)
    /\ target_file = File(target_content)
    /\ reference = <<>>
    /\ Fresh

NextApply ==
    \/ ApplyReplace
    \/ ApplyAppend
    \/ ApplyPrepend
    \/ ApplySmart
    \/ ApplyFunctions

SpecApply == InitApply /\ [][NextApply]_vars

\* the locator on its own
InitLocate ==
    /\ pc = "locate"
    /\ \E iw \in BOOLEAN :
         args = Arguments("smart", FALSE, FALSE, iw, FALSE, FALSE)
    /\ target_content \in LocatorDocuments
    /\ reference \in LocatorReferences
    /\ patch_content = <<>>
    /\ patch_file = Missing
    /\ target_file = File(target_content)
    /\ Fresh

NextLocate == Locate

SpecLocate == InitLocate /\ [][NextLocate]_vars

----------------------------------------------------------------------------
(* Properties                                                              *)

Printed(msg) == \E k \in DOMAIN stdout : stdout[k] = msg

Exited == pc = "exit"

\* a backup was made in this run
BackedUp == Printed("Created backup")

\* C1: under --safe-mode, once the backup exists and the applicator
\* returned changed = true, a failed write of the new document ends the run
\* with a non-zero status, the target file holding what it held before the
\* run, and no backup file on disk.
C1_SafeModeRollback ==
    (Exited /\ args.safe_mode /\ BackedUp /\ changes_made
        /\ Printed("Error writing to file"))
    => /\ exit_status # 0
       /\ target_file = File(target_content)
       /\ ~backup_file.exists

\* the applicator returned changed = false
NoOp == (pc = "check_changes" /\ ~changes_made) \/ Printed("No changes were made")

\* C2 as stated: when the applicator returns changed = false the run
\* ends with status 0, the target file is never written, and a backup made
\* earlier in the run has been removed.
C2_NoOpRemovesBackup ==
    (Exited /\ NoOp)
    => /\ exit_status = 0
       /\ target_file = File(target_content)
       /\ ~backup_file.exists

\* C2 as amended: when the applicator returns changed = false the run ends
\* with status 0 and the target file is never written; a backup made earlier
\* in the run (--backup or --safe-mode) stays on disk, holding the target's
\* content.
C2_NoOp ==
    NoOp
    => /\ Exited => exit_status = 0
       /\ target_file = File(target_content)
       /\ backup_file.exists <=> (args.backup \/ args.safe_mode)
       /\ backup_file.exists => backup_file = File(target_content)

C2_Witness ==
    Exited /\ Printed("No changes were made") /\ backup_file.exists

\* C3 as stated: a run that made a backup has, when it ends, removed the
\* backup or copied it back onto the target; after a successful write no
\* backup file is left.
C3_BackupNeverOrphaned ==
    (Exited /\ BackedUp)
    => (~backup_file.exists \/ Printed("Original file restored"))

\* C3 as amended: a run that made a backup never removes it: on every exit
\* path, a successful write included, the backup file is on disk holding the
\* content the target had before the run; it is copied back onto the target
\* only by the exception handler under --safe-mode, and the target then
\* holds that content again.
C3_BackupKept ==
    BackedUp
    => /\ backup_file = File(target_content)
       /\ Printed("Original file restored")
            => args.safe_mode /\ target_file = backup_file

C3_Witness ==
    /\ Exited /\ exit_status = 0 /\ BackedUp
    /\ Printed("Successfully updated")
    /\ backup_file.exists /\ target_file # backup_file

\* the applicator of the run under way has returned
Returns(mode) == pc = "check_changes" /\ args.mode = mode

\* the {old, new} directives of a patch, and what applying them in order
\* gives: the first occurrence of old replaced by new, changed set by a
\* directive whose old occurs
ReplaceDirectives(patch) == finditer(replace_pattern, patch, 0)

DirectivesApplied(target, patch) ==
    smart_loop("replace",
               [result |-> target, changes_made |-> FALSE, stdout |-> <<>>],
               patch, ReplaceDirectives(patch), FALSE)

\* C4 as stated: replace mode applies each {old, new} directive in order,
\* replacing the first occurrence of old by new and keeping the rest of the
\* document; "foo\nbar\nbaz\n" with old "bar", new "qux" gives
\* "foo\nqux\nbaz\n" with changed = true.
C4_ReplaceDirectives ==
    (Returns("replace") /\ ReplaceDirectives(patch_content) # <<>>)
    => /\ new_content = DirectivesApplied(target_content, patch_content).result
       /\ changes_made
            = DirectivesApplied(target_content, patch_content).changes_made

\* C4 as amended: replace mode returns the whole patch text as the new
\* document, whatever the target holds, and changed is true exactly when the
\* patch text differs from the target's content.
C4_ReplaceWholeFile ==
    Returns("replace")
    => /\ new_content = patch_content
       /\ changes_made <=> (patch_content # target_content)

C4_Witness ==
    /\ Returns("replace")
    /\ target_content = ExampleTarget
    /\ ReplaceDirectives(patch_content) # <<>>
    /\ changes_made

\* apply_function_updates with each name searched for in the document the
\* directives before it produced
RECURSIVE progressive_function_loop(_, _, _)
progressive_function_loop(patch_functions, k, st) ==
    IF k > Len(patch_functions) THEN st
    ELSE progressive_function_loop(patch_functions, k + 1,
            function_step(st, st.result, patch_functions[k][2],
                          search(func_pattern(patch_functions[k][1]),
                                 st.result, 0)))

\* C5: in functions mode the target of the k-th directive is searched for
\* in the document produced by the directives 1..k-1, never in the original
\* input document.  (In smart mode every loop of apply_patch_smart searches
\* the current result.)
C5_ProgressiveDocument ==
    Returns("functions")
    => new_content =
         progressive_function_loop(
             parse_function_blocks(patch_content), 1,
             [result |-> target_content, changes_made |-> FALSE,
              stdout |-> <<>>]).result

IsPrefix(s, t) == Len(s) <= Len(t) /\ SubSeq(t, 1, Len(s)) = s
IsSuffix(s, t) == Len(s) <= Len(t) /\ SubSeq(t, Len(t) - Len(s) + 1, Len(t)) = s

\* the target with the one span m replaced by body, or with body added at
\* its end when there is no span
OneSpanReplaced(target, m, body) ==
    IF m.ok
    THEN Slice(target, 0, m.start) \o body \o SliceFrom(target, m.end)
    ELSE target \o <<NL, NL>> \o body

\* C6: the output is the input with only the matched spans replaced and
\* text added at the insert points: an append keeps every byte of the input
\* in front of the added text, a prepend keeps every byte of it behind the
\* added text, and one function update replaces the one matched definition
\* and nothing else.
C6_UntouchedRegion ==
    /\ Returns("append") => IsPrefix(target_content, new_content)
    /\ Returns("prepend") => IsSuffix(target_content, new_content)
    /\ (Returns("functions") /\ Len(parse_function_blocks(patch_content)) = 1)
       => new_content =
            OneSpanReplaced(
                target_content,
                search(func_pattern(parse_function_blocks(patch_content)[1][1]),
                       target_content, 0),
                parse_function_blocks(patch_content)[1][2])

\* how often the literal occurs in the text
Occurrences(text, literal) ==
    Cardinality({i \in 0..Len(text) : StartsAt(text, literal, i)})

\* a start marker of a smart directive without its separator or end marker:
\* more start markers of a kind than directives of that kind
Malformed(patch) ==
    \/ Occurrences(patch, REPLACE_SECTION) > Len(finditer(replace_pattern, patch, 0))
    \/ Occurrences(patch, ADD_AFTER) > Len(finditer(after_pattern, patch, 0))
    \/ Occurrences(patch, ADD_BEFORE) > Len(finditer(before_pattern, patch, 0))
    \/ Occurrences(patch, INSERT_AT_LINE) > Len(finditer(insert_pattern, patch, 0))

\* C7: a smart patch with a directive whose paired marker is missing makes
\* the run exit with a non-zero status without writing the target file, also
\* when other directives of the patch are well-formed and match.
C7_MalformedNeverEdits ==
    (Exited /\ args.mode = "smart" /\ Malformed(patch_content))
    => /\ exit_status # 0
       /\ target_file = File(target_content)

AppliedMessages ==
    {"Replaced section", "Added content after", "Added content before",
     "Inserted at line"}

\* the directives of all four kinds in a smart patch
DirectiveCount(patch) ==
    Len(finditer(replace_pattern, patch, 0)) + Len(finditer(after_pattern, patch, 0))
    + Len(finditer(before_pattern, patch, 0)) + Len(finditer(insert_pattern, patch, 0))

\* C8: apply_patch_smart returns changed = true exactly when at least one
\* directive applied; a directive that is skipped (anchor not found, line out
\* of range) does not stop the directives after it: every directive is
\* reported as applied or skipped; and with changed = false the returned
\* document is the input document.
C8_SmartChangeFlag ==
    Returns("smart")
    => /\ changes_made <=> \E k \in DOMAIN stdout : stdout[k] \in AppliedMessages
       /\ Len(stdout) = DirectiveCount(patch_content)
       /\ ~changes_made => new_content = target_content

\* a skipped directive with an applied one after it
C8_Witness ==
    /\ Returns("smart")
    /\ changes_made
    /\ \E j, k \in DOMAIN stdout :
         j < k /\ stdout[j] \notin AppliedMessages /\ stdout[k] \in AppliedMessages

Located == pc = "located"

\* C9: a match (start, end) of find_section_smart is a span of the
\* document, 0 <= start <= end <= len(D), and D[start:end] equals the
\* reference: as it is for an exact match, after normalization of both when
\* whitespace is ignored.
C9_SpanInvariant ==
    (Located /\ span # NoSpan)
    => /\ 0 <= span[1] /\ span[1] <= span[2] /\ span[2] <= Len(target_content)
       /\ IF args.ignore_whitespace
          THEN normalize_whitespace(Slice(target_content, span[1], span[2]))
                 = normalize_whitespace(reference)
          ELSE Slice(target_content, span[1], span[2]) = reference

\* the windows of the document for the reference, and the ratio of each
Windows == 0..(Len(split(target_content, NL)) - Len(split(reference, NL)))

WindowRatio(i) ==
    ratio(normalize_whitespace(window(split(target_content, NL), i,
                                      Len(split(reference, NL)))),
          normalize_whitespace(reference))

\* the fuzzy tier is reached: whitespace ignored, windows exist, none equals
\* the reference after normalization
FuzzyTier ==
    /\ args.ignore_whitespace
    /\ Windows # {}
    /\ \A i \in Windows :
         normalize_whitespace(window(split(target_content, NL), i,
                                     Len(split(reference, NL))))
           # normalize_whitespace(reference)

\* the window no window beats, and the first of those
BestWindow ==
    CHOOSE i \in Windows :
        \A j \in Windows :
            /\ ~RatioGT(WindowRatio(j), WindowRatio(i))
            /\ j < i => RatioGT(WindowRatio(i), WindowRatio(j))

\* C10: in the fuzzy tier the locator returns the window with the highest
\* ratio, the first of them when several share it, provided that ratio is
\* above 0.80; a highest ratio of 0.80 or less gives no match.
C10_FuzzySelection ==
    (Located /\ FuzzyTier)
    => IF RatioGT(WindowRatio(BestWindow), Threshold)
       THEN /\ span # NoSpan
            /\ span[1] = offset_of_line(split(target_content, NL), BestWindow)
       ELSE span = NoSpan

\* two windows share the highest ratio and the first of them is returned
C10_Witness ==
    /\ Located /\ FuzzyTier
    /\ span # NoSpan
    /\ \E j \in Windows :
         /\ j > BestWindow
         /\ WindowRatio(j) = WindowRatio(BestWindow)

====
